---- MODULE Spec2Model ----
(***************************************************************************)
(* Model of the validation utilities of lancet_code:                       *)
(*   src/validate.py      validation_metrics                               *)
(*   src/utils/plots.py   plot_results_above_threshold                     *)
(*                                                                         *)
(* Numbers.  A metric value is an exact fraction [num, den] in lowest      *)
(* terms; NaN and Inf are the two results numpy gives for a division by    *)
(* zero.  A probability or a threshold is an integer on a grid on which    *)
(* the double nearest to k/100 is 10*k, and a double one rounding step     *)
(* above or below it is 10*k+1 or 10*k-1: the grid keeps the order of the  *)
(* doubles that numpy.arange produces and that the callers pass in.        *)
(***************************************************************************)
EXTENDS Integers, Sequences, FiniteSets, TLC

VARIABLES preds, probs, labels, pc, report, keyIdx, above_threshold, result,
          plots, predsUsed, err, tf, aucOrig, aucT

vars == <<preds, probs, labels, pc, report, keyIdx, above_threshold, result,
          plots, predsUsed, err, tf, aucOrig, aucT>>

(* Longest input sequence that is enumerated. *)
MaxN == 2

(* Values a probability takes: below every threshold and out of range,  *)
(* the double 0.07, the double 0.5, 0.9, and above every threshold and  *)
(* out of range.                                                        *)
ProbVals == {-50, 70, 500, 900, 1500}

(* Values a label takes; 2 is outside {0,1}. *)
LabelVals == {0, 1, 2}

PredVals == {0, 1}

SeqsUpTo(S, n) == UNION {[1..m -> S] : m \in 0..n}

(* ------------------------------ numbers ------------------------------ *)

RECURSIVE GCD(_, _)
GCD(a, b) == IF b = 0 THEN a ELSE GCD(b, a % b)

Frac(a, b) == LET g == GCD(a, b) IN [num |-> a \div g, den |-> b \div g]

NaN == [num |-> 0, den |-> 0]

Inf == [num |-> 1, den |-> 0]

Zero == [num |-> 0, den |-> 1]

One == [num |-> 1, den |-> 1]

NumpyDivZeroAsZero(a, b) == IF b = 0 THEN Zero ELSE Frac(a, b)

(* a / b on numpy integer scalars: 0/0 is nan, x/0 is inf, with a warning *)
(* and no exception.                                                       *)
NumpyDiv(a, b) == IF b = 0 THEN (IF a = 0 THEN NaN ELSE Inf) ELSE Frac(a, b)

IsNumber(v) == v.den > 0

Values(s) == {s[j] : j \in 1..Len(s)}

RECURSIVE SumSeq(_)
SumSeq(s) == IF s = <<>> THEN 0 ELSE Head(s) + SumSeq(Tail(s))

RECURSIVE SortedAsc(_)
SortedAsc(S) ==
    IF S = {} THEN <<>>
    ELSE LET m == CHOOSE x \in S : \A y \in S : x <= y
         IN <<m>> \o SortedAsc(S \ {m})

(* ------------------------- sklearn.metrics --------------------------- *)

(* confusion_matrix(y_true, y_pred) with labels=None: one row and one     *)
(* column per value that occurs in y_true or y_pred, in sorted order;     *)
(* ravel() lays the rows end to end.  Inconsistent lengths raise.         *)
confusion_matrix_ravel(y_true, y_pred) ==
    LET U == SortedAsc(Values(y_true) \cup Values(y_pred))
        n == Len(U)
    IN [k \in 1..(n * n) |->
          Cardinality({j \in DOMAIN y_true : y_true[j] = U[((k - 1) \div n) + 1]
                                   /\ y_pred[j] = U[((k - 1) % n) + 1]})]

Max(S) == CHOOSE x \in S : \A y \in S : y <= x

(* A ranking that counts a tie between a positive and a negative as a win. *)
RocTrapezoidTiesAsWins(y_true, y_score) ==
    LET pos == Max(Values(y_true))
    IN 2 * Cardinality({pn \in (1..Len(y_true)) \X (1..Len(y_true)) :
                          /\ y_true[pn[1]] = pos /\ y_true[pn[2]] # pos
                          /\ y_score[pn[1]] >= y_score[pn[2]]})

(* The ROC curve of roc_curve: one point per distinct score, taken in     *)
(* decreasing order, after the origin; tps and fps count the samples      *)
(* whose score is at least that value.  The positive class is the larger  *)
(* of the two values of y_true.  The result is twice the area under the   *)
(* curve by the trapezoid rule, before the division by the two class      *)
(* sizes.                                                                  *)
RocTrapezoid2(y_true, y_score) ==
    LET pos == Max(Values(y_true))
        D == SortedAsc(Values(y_score))
        n == Len(D)
        thr(k) == D[n + 1 - k]
        tps(k) == IF k = 0 THEN 0
                  ELSE Cardinality({j \in DOMAIN y_true : y_true[j] = pos /\ y_score[j] >= thr(k)})
        fps(k) == IF k = 0 THEN 0
                  ELSE Cardinality({j \in DOMAIN y_true : y_true[j] # pos /\ y_score[j] >= thr(k)})
        S[k \in 0..n] == IF k = 0 THEN 0
                         ELSE S[k - 1] + (fps(k) - fps(k - 1)) * (tps(k) + tps(k - 1))
    IN S[n]

(* roc_auc_score(y_true, y_score) for a binary target.  It raises         *)
(* ValueError when y_true does not hold exactly two classes ("Only one    *)
(* class present in y_true. ROC AUC score is not defined in that case."), *)
(* and when the lengths differ.                                            *)
roc_auc_score(y_true, y_score) ==
    LET classes == Values(y_true)
        pos == Max(classes)
        nPos == Cardinality({j \in DOMAIN y_true : y_true[j] = pos})
        nNeg == Len(y_true) - nPos
    IN IF Cardinality(classes) # 2
       THEN [ok |-> FALSE, why |-> "classes", v |-> NaN]
       ELSE IF Len(y_true) # Len(y_score)
       THEN [ok |-> FALSE, why |-> "length", v |-> NaN]
       ELSE [ok |-> TRUE, why |-> "",
             v |-> Frac(RocTrapezoid2(y_true, y_score), 2 * nPos * nNeg)]

(* --------------------------- validate.py ----------------------------- *)

MetricNames == {"Accuracy", "F1 Score", "Precision", "Sensitivity", "Specificity", "AUC"}

NoReport == [kind |-> "none", at |-> "", counts |-> <<>>, metrics |-> <<>>]

Raised(where, counts) ==
    [kind |-> "ValueError", at |-> where, counts |-> counts, metrics |-> <<>>]

Accuracy(tn, fp, fn, tp) == NumpyDiv(tp + tn, tp + fp + tn + fn)

Precision(tn, fp, fn, tp) == NumpyDiv(tp, tp + fp)

Sensitivity(tn, fp, fn, tp) == NumpyDiv(tp, tp + fn)

Specificity(tn, fp, fn, tp) == NumpyDiv(tn, fp + tn)

F1WithoutFactorTwo(tn, fp, fn, tp) == NumpyDiv(tp, 2 * tp + fp + fn)

F1(tn, fp, fn, tp) == NumpyDiv(2 * tp, 2 * tp + fp + fn)

(* validation_metrics(preds, probs, labels): what the call returns or     *)
(* raises.  counts is confusion_matrix(labels, preds).ravel(); the        *)
(* assignment  tn, fp, fn, tp = ...  raises ValueError unless it holds    *)
(* exactly four values (one value present: 1x1, one element; three: 3x3). *)
(* Empty arrays raise ValueError as well, recorded here at the unpack.    *)
validation_metrics(p, pr, l) ==
    IF Len(l) # Len(p) THEN Raised("confusion_matrix", <<>>)
    ELSE
    LET counts == confusion_matrix_ravel(l, p)
    IN IF Len(counts) # 4 THEN Raised("unpack", counts)
       ELSE
       LET tn == counts[1]
           fp == counts[2]
           fn == counts[3]
           tp == counts[4]
           accuracy == Accuracy(tn, fp, fn, tp)
           precision == Precision(tn, fp, fn, tp)
           sensitivity == Sensitivity(tn, fp, fn, tp)
           specificity == Specificity(tn, fp, fn, tp)
           f1 == F1(tn, fp, fn, tp)
           auc == roc_auc_score(l, pr)
       IN IF ~auc.ok THEN Raised("roc_auc_score", counts)
          ELSE [kind |-> "report", at |-> "", counts |-> counts,
                metrics |-> [m \in MetricNames |->
                    CASE m = "Accuracy" -> accuracy
                      [] m = "F1 Score" -> f1
                      [] m = "Precision" -> precision
                      [] m = "Sensitivity" -> sensitivity
                      [] m = "Specificity" -> specificity
                      [] m = "AUC" -> auc.v]]

(* State of the sweep and of the AUC comparison before either has run. *)
NoSweep ==
    /\ keyIdx = 0
    /\ above_threshold = <<>>
    /\ result = <<>>
    /\ plots = <<>>
    /\ predsUsed = <<>>
    /\ err = ""

NoAuc ==
    /\ tf = ""
    /\ aucOrig = NaN
    /\ aucT = NaN

(* A caller has the three arrays and has not called yet. *)
InitMetrics ==
    /\ preds \in SeqsUpTo(PredVals, MaxN)
    /\ probs \in SeqsUpTo(ProbVals, MaxN)
    /\ labels \in SeqsUpTo(LabelVals, MaxN)
    /\ pc = "start"
    /\ report = NoReport
    /\ NoSweep
    /\ NoAuc

ValidationMetricsReturns ==
    /\ pc = "start"
    /\ validation_metrics(preds, probs, labels).kind = "report"
    /\ report' = validation_metrics(preds, probs, labels)
    /\ pc' = "returned"
    /\ UNCHANGED <<preds, probs, labels, keyIdx, above_threshold, result,
                   plots, predsUsed, err, tf, aucOrig, aucT>>

ValidationMetricsRaises ==
    /\ pc = "start"
    /\ validation_metrics(preds, probs, labels).kind = "ValueError"
    /\ report' = validation_metrics(preds, probs, labels)
    /\ pc' = "raised"
    /\ UNCHANGED <<preds, probs, labels, keyIdx, above_threshold, result,
                   plots, predsUsed, err, tf, aucOrig, aucT>>

NextMetrics == ValidationMetricsReturns \/ ValidationMetricsRaises

SpecMetrics == InitMetrics /\ [][NextMetrics]_vars

(* --------------------------- utils/plots.py -------------------------- *)

(* accuracy_score(y_true, y_pred): the fraction of positions at which the *)
(* two agree; inconsistent lengths raise ValueError.                      *)
accuracy_score(y_true, y_pred) ==
    IF Len(y_true) # Len(y_pred)
    THEN [ok |-> FALSE, exc |-> "ValueError", v |-> NaN]
    ELSE [ok |-> TRUE, exc |-> "",
          v |-> NumpyDiv(Cardinality({j \in DOMAIN y_true : y_true[j] = y_pred[j]}), Len(y_true))]

(* precision_score, recall_score and f1_score are called with the default *)
(* average='binary' and pos_label=1.  They raise ValueError on            *)
(* inconsistent lengths, on a target with more than two values in y_true  *)
(* and y_pred together, and when 1 is absent while two values are present.*)
BinaryAverageRaises(y_true, y_pred) ==
    LET present == Values(y_true) \cup Values(y_pred)
    IN \/ Len(y_true) # Len(y_pred)
       \/ Cardinality(present) > 2
       \/ (1 \notin present /\ Cardinality(present) >= 2)

TruePositives(y_true, y_pred) == Cardinality({j \in DOMAIN y_true : y_true[j] = 1 /\ y_pred[j] = 1})

(* zero_division=0: a ratio with a zero denominator is 0. *)
ZeroDivision0(a, b) == IF b = 0 THEN Zero ELSE Frac(a, b)

precision_score(y_true, y_pred) ==
    IF BinaryAverageRaises(y_true, y_pred)
    THEN [ok |-> FALSE, exc |-> "ValueError", v |-> NaN]
    ELSE [ok |-> TRUE, exc |-> "",
          v |-> ZeroDivision0(TruePositives(y_true, y_pred),
                              Cardinality({j \in DOMAIN y_pred : y_pred[j] = 1}))]

recall_score(y_true, y_pred) ==
    IF BinaryAverageRaises(y_true, y_pred)
    THEN [ok |-> FALSE, exc |-> "ValueError", v |-> NaN]
    ELSE [ok |-> TRUE, exc |-> "",
          v |-> ZeroDivision0(TruePositives(y_true, y_pred),
                              Cardinality({j \in DOMAIN y_true : y_true[j] = 1}))]

f1_score(y_true, y_pred) ==
    IF BinaryAverageRaises(y_true, y_pred)
    THEN [ok |-> FALSE, exc |-> "ValueError", v |-> NaN]
    ELSE [ok |-> TRUE, exc |-> "",
          v |-> ZeroDivision0(2 * TruePositives(y_true, y_pred),
                              Cardinality({j \in DOMAIN y_pred : y_pred[j] = 1})
                                + Cardinality({j \in DOMAIN y_true : y_true[j] = 1}))]

(* The keys of the metrics dictionary, in insertion order. *)
Keys == <<"Percentage of Samples", "Accuracy", "Precision", "Recall", "F1 Score">>

(* len(np.arange(0.01, 1.00, 0.01)) *)
NumThresholds == 99

(* np.arange(0.01, 1.00, 0.01)[i-1] is the double 0.01 + (i-1)*0.01.  For *)
(* these i it is one rounding step above the double nearest to i/100, for *)
(* 7 and 10 one step below, and for every other i (50 among them) equal.  *)
RoundedUp == {6, 15, 18, 21, 24, 29, 35, 36, 41, 42, 47, 48, 57, 58, 69, 70, 71,
              82, 83, 84, 94, 95, 96}

RoundedDown == {7, 10}

ThresholdsDescending(i) == 10 * (100 - i)

threshold(i) ==
    10 * i + (IF i \in RoundedUp THEN 1 ELSE IF i \in RoundedDown THEN -1 ELSE 0)

PredsNotStrict(pr, thr) == [j \in 1..Len(pr) |-> IF pr[j] >= thr THEN 1 ELSE 0]

(* preds = (probs > thr).astype(int) *)
PredsAbove(pr, thr) == [j \in 1..Len(pr) |-> IF pr[j] > thr THEN 1 ELSE 0]

IsFortyNine(thr) == thr = 490

(* thr == 0.5 *)
IsHalf(thr) == thr = 500

(* The body of the loop over the thresholds for one key: the value stored *)
(* in above_threshold[i], or the exception raised there.                  *)
ValueAt(key, pr, l, thr) ==
    LET p == PredsAbove(pr, thr)
    IN CASE key = "Percentage of Samples" ->
              IF Len(pr) = 0
              THEN [ok |-> FALSE, exc |-> "ZeroDivisionError", v |-> NaN]
              ELSE [ok |-> TRUE, exc |-> "", v |-> NumpyDiv(SumSeq(p), Len(pr))]
         [] key = "Accuracy" -> accuracy_score(l, p)
         [] key = "Precision" -> precision_score(l, p)
         [] key = "Recall" -> recall_score(l, p)
         [] key = "F1 Score" -> f1_score(l, p)

KeepAll(av) == [i \in 1..Len(av) |-> i]

(* nonzero = np.array(above_threshold) != 0, as the indices it selects. *)
Nonzero(av) == SelectSeq([i \in 1..Len(av) |-> i], LAMBDA i : av[i] # Zero)

(* The thresholds at which the loop body of one key raises. *)
SweepRaisesAt(key) ==
    {i \in 1..NumThresholds : ~ValueAt(key, probs, labels, threshold(i)).ok}

(* result after the loop of one key: assigned where thr == 0.5, else left *)
(* as the previous key left it (unbound before the first key).            *)
ResultAfter(key) ==
    LET hit == {i \in 1..NumThresholds : IsHalf(threshold(i))}
    IN IF hit = {} THEN result
       ELSE <<ValueAt(key, probs, labels, threshold(Max(hit))).v>>

InitSweep ==
    /\ preds = <<>>
    /\ probs \in SeqsUpTo(ProbVals, MaxN)
    /\ labels \in SeqsUpTo(LabelVals, MaxN)
    /\ pc = "sweep"
    /\ report = NoReport
    /\ NoSweep
    /\ NoAuc

(* One pass of the loop over the keys that ends with the figure saved. *)
PlotKey ==
    /\ pc = "sweep"
    /\ keyIdx < Len(Keys)
    /\ LET key == Keys[keyIdx + 1]
           av == [i \in 1..NumThresholds |-> ValueAt(key, probs, labels, threshold(i)).v]
           nz == Nonzero(above_threshold')
       IN /\ SweepRaisesAt(key) = {}
          /\ above_threshold' = av
          /\ result' = ResultAfter(key)
          /\ result' # <<>>
          /\ predsUsed' = [i \in 1..NumThresholds |-> PredsAbove(probs, threshold(i))]
          /\ plots' = Append(plots,
                 [key |-> key,
                  xs |-> [n \in 1..Len(nz) |-> threshold(nz[n])],
                  ys |-> [n \in 1..Len(nz) |-> above_threshold'[nz[n]]],
                  at05 |-> result'[1]])
    /\ keyIdx' = keyIdx + 1
    /\ pc' = IF keyIdx + 1 = Len(Keys) THEN "done" ELSE "sweep"
    /\ err' = ""
    /\ UNCHANGED <<preds, probs, labels, report, tf, aucOrig, aucT>>

(* One pass of the loop over the keys that raises: in a metric call, in   *)
(* the division by len(probs), or at the use of an unbound result.        *)
PlotKeyRaises ==
    /\ pc = "sweep"
    /\ keyIdx < Len(Keys)
    /\ LET key == Keys[keyIdx + 1]
           bad == SweepRaisesAt(key)
       IN /\ (bad # {} \/ ResultAfter(key) = <<>>)
          /\ err' = IF bad # {}
                    THEN ValueAt(key, probs, labels,
                                 threshold(CHOOSE i \in bad : \A k \in bad : i <= k)).exc
                    ELSE "UnboundLocalError"
    /\ pc' = "raised"
    /\ UNCHANGED <<preds, probs, labels, report, keyIdx, above_threshold, result,
                   plots, predsUsed, tf, aucOrig, aucT>>

NextSweep == PlotKey \/ PlotKeyRaises

SpecSweep == InitSweep /\ [][NextSweep]_vars

(* ------------- validation_metrics on transformed scores -------------- *)

(* Longest input of the comparison of two calls. *)
MaxAucN == 3

(* Strictly monotonic maps of a score: two increasing, two decreasing. *)
Transforms == {"2x+1", "x|x|", "-x", "1-x"}

Increasing == {"2x+1", "x|x|"}

Transform(f, x) ==
    CASE f = "2x+1" -> 2 * x + 1
      [] f = "x|x|" -> IF x >= 0 THEN x * x ELSE 0 - (x * x)
      [] f = "-x" -> 0 - x
      [] f = "1-x" -> 1000 - x

InitAuc ==
    /\ \E n \in 1..MaxAucN :
         /\ preds \in [1..n -> PredVals]
         /\ probs \in [1..n -> ProbVals]
         /\ labels \in [1..n -> PredVals]
    /\ pc = "start"
    /\ report = NoReport
    /\ NoSweep
    /\ NoAuc

AucOf(r) == IF r.kind = "report" THEN r.metrics["AUC"] ELSE NaN

(* Two calls of validation_metrics, the second with every probability *)
(* replaced by its image under f.                                     *)
ValidateTransformed ==
    /\ pc = "start"
    /\ \E f \in Transforms :
         /\ tf' = f
         /\ report' = validation_metrics(preds, probs, labels)
         /\ aucOrig' = AucOf(report')
         /\ aucT' = AucOf(validation_metrics(preds,
                             [j \in 1..Len(probs) |-> Transform(f, probs[j])], labels))
    /\ pc' = "compared"
    /\ UNCHANGED <<preds, probs, labels, keyIdx, above_threshold, result,
                   plots, predsUsed, err>>

NextAuc == ValidateTransformed

SpecAuc == InitAuc /\ [][NextAuc]_vars

(* ------------------- properties of validation_metrics ---------------- *)

IsBinary(s) == Values(s) \subseteq {0, 1}

InUnitInterval(s) == \A j \in 1..Len(s) : 0 <= s[j] /\ s[j] <= 1000

(* The input constraints of the metric report: equal lengths, N >= 1,  *)
(* labels in {0,1}, probabilities in [0,1].                            *)
ValidMetricsInput ==
    /\ Len(preds) = Len(labels)
    /\ Len(probs) = Len(labels)
    /\ Len(labels) >= 1
    /\ IsBinary(preds)
    /\ IsBinary(labels)
    /\ InUnitInterval(probs)

Called == pc \in {"returned", "raised"}

Ones(s) == Cardinality({j \in DOMAIN s : s[j] = 1})

Zeros(s) == Cardinality({j \in DOMAIN s : s[j] = 0})

(* The denominator of a ratio, counted from the arrays themselves. *)
Denominator(m) ==
    CASE m = "Precision" -> Ones(preds)
      [] m = "Sensitivity" -> Ones(labels)
      [] m = "Specificity" -> Zeros(labels)
      [] m = "F1 Score" -> Ones(preds) + Ones(labels)

Ratios == {"Precision", "Sensitivity", "Specificity", "F1 Score"}

C2_OneClassRaisesInAuc ==
    (Called /\ ValidMetricsInput /\ Cardinality(Values(labels)) = 1) =>
        (report.kind = "ValueError" /\ report.at = "roc_auc_score")

(* C3: an input with mismatched lengths, a label outside {0,1}, a         *)
(* probability outside [0,1] or N = 0 yields no metric report.            *)
C3_InvalidInputYieldsNoReport ==
    (Called /\ ~ValidMetricsInput) => report.kind # "report"

(* C4, as stated: whenever the predicted labels of a valid input equal    *)
(* the true labels at every sample, the five ratios of the report are 1.  *)
FiveRatiosAreOne ==
    /\ report.kind = "report"
    /\ \A m \in Ratios \cup {"Accuracy"} : report.metrics[m] = One

C4_PerfectPredictionAllOnes_Original ==
    (Called /\ ValidMetricsInput /\ preds = labels) => FiveRatiosAreOne

(* C4, amended: whenever the predicted labels of a valid input equal the  *)
(* true labels at every sample and both classes occur, the five ratios of *)
(* the report are 1.                                                      *)
C4_PerfectPredictionAllOnes ==
    (Called /\ ValidMetricsInput /\ preds = labels /\ Values(labels) = {0, 1})
        => FiveRatiosAreOne

C4_Witness ==
    /\ pc = "returned"
    /\ ValidMetricsInput
    /\ preds = labels
    /\ Values(labels) = {0, 1}
    /\ report.metrics["F1 Score"] = One

(* C7: for every pair of predicted and true labels of equal length N >= 1 *)
(* with values in {0,1}, four confusion counts are produced and their sum *)
(* is N.                                                                  *)
C7_FourCountsSumToN ==
    (Called /\ Len(preds) = Len(labels) /\ Len(labels) >= 1
            /\ IsBinary(preds) /\ IsBinary(labels)) =>
        (Len(report.counts) = 4 /\ SumSeq(report.counts) = Len(labels))

(* ---------------- properties of plot_results_above_threshold --------- *)

(* The input constraints of the sweep. *)
ValidSweepInput ==
    /\ Len(probs) = Len(labels)
    /\ Len(labels) >= 1
    /\ IsBinary(labels)
    /\ InUnitInterval(probs)

Leq(a, b) == a.num * b.den <= b.num * a.den

Above(t) == Cardinality({j \in 1..Len(probs) : probs[j] > t})

(* C6: for every valid input, the "Percentage of Samples" values over the *)
(* 99 thresholds taken in increasing order never increase, and each is    *)
(* the number of samples whose probability exceeds the threshold, over N. *)
C6_PercentageNonIncreasing ==
    (keyIdx = 1 /\ ValidSweepInput) =>
        /\ Len(above_threshold) = NumThresholds
        /\ \A i \in 1..(NumThresholds - 1) :
             /\ threshold(i) < threshold(i + 1)
             /\ Leq(above_threshold[i + 1], above_threshold[i])
        /\ \A i \in 1..NumThresholds :
             above_threshold[i] = Frac(Above(threshold(i)), Len(probs))

C6_Witness ==
    /\ keyIdx = 1
    /\ ValidSweepInput
    /\ above_threshold[1] = One
    /\ above_threshold[50] = [num |-> 1, den |-> 2]
    /\ above_threshold[NumThresholds] = Zero

(* C9: for every valid input the sweep never aborts; each key has a value *)
(* at all 99 thresholds, and the series plotted for it holds exactly the  *)
(* (threshold, value) pairs whose value is not 0, by increasing threshold.*)
C9_SeriesDropsExactlyZeros ==
    ValidSweepInput =>
        /\ pc # "raised"
        /\ Len(plots) = keyIdx
        /\ keyIdx >= 1 =>
             LET s == plots[keyIdx]
             IN /\ Len(above_threshold) = NumThresholds
                /\ s.key = Keys[keyIdx]
                /\ Len(s.xs) = Len(s.ys)
                /\ \A n \in 1..Len(s.ys) : s.ys[n] # Zero
                /\ \A n \in 1..(Len(s.xs) - 1) : s.xs[n] < s.xs[n + 1]
                /\ {<<s.xs[n], s.ys[n]>> : n \in 1..Len(s.xs)}
                     = {<<threshold(i), above_threshold[i]>> :
                          i \in {k \in 1..NumThresholds : above_threshold[k] # Zero}}

(* A Precision series that misses the thresholds with no positive call. *)
C9_Witness ==
    /\ ValidSweepInput
    /\ keyIdx = 3
    /\ Above(threshold(NumThresholds)) = 0
    /\ above_threshold[NumThresholds] = Zero
    /\ Len(plots[3].xs) > 0
    /\ Len(plots[3].xs) < NumThresholds

(* The value of a key for one labelling, from the counts. *)
Expected(key, p, l) ==
    LET tp == Cardinality({j \in DOMAIN l : l[j] = 1 /\ p[j] = 1})
        fp == Cardinality({j \in DOMAIN l : l[j] = 0 /\ p[j] = 1})
        fn == Cardinality({j \in DOMAIN l : l[j] = 1 /\ p[j] = 0})
        tn == Cardinality({j \in DOMAIN l : l[j] = 0 /\ p[j] = 0})
        ratio(a, b) == IF b = 0 THEN Zero ELSE Frac(a, b)
    IN CASE key = "Percentage of Samples" -> ratio(tp + fp, Len(p))
         [] key = "Accuracy" -> ratio(tp + tn, Len(p))
         [] key = "Precision" -> ratio(tp, tp + fp)
         [] key = "Recall" -> ratio(tp, tp + fn)
         [] key = "F1 Score" -> ratio(2 * tp, 2 * tp + fp + fn)

(* C10: for every valid input and every key, at each of the 99 thresholds *)
(* a sample is labelled positive exactly when its probability is strictly *)
(* greater than the threshold, and the value of the key at that threshold *)
(* is the one of this labelling.                                          *)
C10_StrictlyAboveThreshold ==
    (keyIdx >= 1 /\ ValidSweepInput) =>
        \A i \in 1..NumThresholds :
            /\ \A j \in 1..Len(probs) :
                 predsUsed[i][j] = (IF probs[j] > threshold(i) THEN 1 ELSE 0)
            /\ above_threshold[i] = Expected(Keys[keyIdx], predsUsed[i], labels)

C10_Witness ==
    /\ pc = "done"
    /\ ValidSweepInput
    /\ \E j \in 1..Len(probs) :
         /\ probs[j] = threshold(50)
         /\ predsUsed[50][j] = 0
         /\ predsUsed[49][j] = 1

(* validation_metrics on the labels derived as probability > 0.50. *)
ReportAtHalf ==
    validation_metrics([j \in 1..Len(probs) |-> IF probs[j] > 500 THEN 1 ELSE 0],
                       probs, labels)

ReportName(key) == IF key = "Recall" THEN "Sensitivity" ELSE key

(* C5, as stated: for every valid input on which validation_metrics       *)
(* returns a report for the labels derived as probability > 0.50, the     *)
(* headline value of Accuracy, Precision, Recall and F1 Score equals the  *)
(* report's value of that metric.                                         *)
C5_HeadlineEqualsReport_Original ==
    (keyIdx >= 2 /\ ValidSweepInput /\ ReportAtHalf.kind = "report") =>
        result[1] = ReportAtHalf.metrics[ReportName(Keys[keyIdx])]

(* C5, amended: the headline value of each key is the value computed for  *)
(* that key at the threshold 0.5; for Accuracy, Precision, Recall and F1  *)
(* Score it equals the value of the report wherever the report holds a    *)
(* number, and is 0 where the report holds NaN.                           *)
C5_HeadlineEqualsReport ==
    (keyIdx >= 1 /\ ValidSweepInput) =>
        /\ result = <<above_threshold[50]>>
        /\ plots[keyIdx].at05 = above_threshold[50]
        /\ threshold(50) = 500
        /\ (keyIdx >= 2 /\ ReportAtHalf.kind = "report") =>
             LET r == ReportAtHalf.metrics[ReportName(Keys[keyIdx])]
             IN IF IsNumber(r) THEN result[1] = r ELSE (r = NaN /\ result[1] = Zero)

C5_Witness ==
    /\ keyIdx = 3
    /\ ValidSweepInput
    /\ ReportAtHalf.kind = "report"
    /\ result = <<One>>
    /\ ReportAtHalf.metrics["Precision"] = One
    /\ above_threshold[49] = [num |-> 1, den |-> 2]

(* -------------------- properties of the AUC -------------------------- *)

BothClasses == Values(labels) = {0, 1}

(* Twice the number of (positive, negative) pairs in which the positive *)
(* has the higher probability, a tie counted as one half.               *)
MannWhitney2 ==
    LET pairs == {pn \in (1..Len(labels)) \X (1..Len(labels)) :
                    labels[pn[1]] = 1 /\ labels[pn[2]] = 0}
    IN 2 * Cardinality({pn \in pairs : probs[pn[1]] > probs[pn[2]]})
         + Cardinality({pn \in pairs : probs[pn[1]] = probs[pn[2]]})

OneMinus(a) == Frac(a.den - a.num, a.den)

(* C8, as stated: with both classes among the true labels, the AUC of the *)
(* report is unchanged by any strictly monotonic transform of the         *)
(* probabilities.                                                         *)
C8_AucInvariantUnderMonotonic_Original ==
    (pc = "compared" /\ ValidMetricsInput /\ BothClasses) => aucT = aucOrig

(* C8, amended: with both classes among the true labels, the AUC of the   *)
(* report is the Mann-Whitney statistic with ties counted one half; it is *)
(* unchanged by a strictly increasing transform of the probabilities, and *)
(* a strictly decreasing transform turns it into 1 - AUC.                 *)
C8_AucInvariantUnderIncreasing ==
    (pc = "compared" /\ ValidMetricsInput /\ BothClasses) =>
        /\ report.kind = "report"
        /\ aucOrig = Frac(MannWhitney2, 2 * Ones(labels) * Zeros(labels))
        /\ tf \in Increasing => aucT = aucOrig
        /\ tf \notin Increasing => aucT = OneMinus(aucOrig)

C8_Witness ==
    /\ pc = "compared"
    /\ ValidMetricsInput
    /\ BothClasses
    /\ tf = "x|x|"
    /\ aucOrig = [num |-> 3, den |-> 4]
    /\ aucT = [num |-> 3, den |-> 4]

====
